---- MODULE Spec2Model ----
(***************************************************************************)
(* Asciicast v2 record formats (termtosvg/asciicast.py).                   *)
(*                                                                         *)
(* Python values are tagged records: the field t is the exact Python type  *)
(* (the code tests type(x), never isinstance), and each type keeps its     *)
(* payload under a field name of its own:                                  *)
(*   int n, float tenths (a float is held as a whole number of tenths, so  *)
(*   0.5 is tenths 5 and 80.0 is tenths 800), str s (a sequence of code    *)
(*   points), bytes b (a sequence of 0..255), bool bv, NoneType,           *)
(*   list items, dict pairs (key/value pairs in insertion order).          *)
(* A line is a Python str: a sequence of code points.                      *)
(* A call's outcome is [k |-> "ok", v |-> value] or [k |-> <exception>].   *)
(***************************************************************************)
EXTENDS Integers, Sequences, FiniteSets, TLC

VARIABLES pending, op, arg, out, src, stream, emitted

vars == <<pending, op, arg, out, src, stream, emitted>>

\* ---------------------------------------------------------------- bounds
\* Longest event_data, in bytes, of an event handed to the model.
MaxDataLen == 2
\* Most bytes a writer pushes through the decoder in the streaming run.
MaxStream == 4

\* ---------------------------------------------------------------- values
None == [t |-> "NoneType"]
PyInt(n) == [t |-> "int", n |-> n]
PyFloat(tenths) == [t |-> "float", tenths |-> tenths]
PyStr(s) == [t |-> "str", s |-> s]
PyBytes(b) == [t |-> "bytes", b |-> b]
PyBool(bv) == [t |-> "bool", bv |-> bv]
PyList(items) == [t |-> "list", items |-> items]
PyDict(pairs) == [t |-> "dict", pairs |-> pairs]

Ok(v) == [k |-> "ok", v |-> v]
Raise(exc) == [k |-> exc]

\* ------------------------------------------------ the UTF-8 decoder
\* codecs.getincrementaldecoder('utf-8')('replace'): CPython's UTF-8 decoder.
IsContinuation(c) == c >= 128 /\ c <= 191

UChar(cp, n) == [k |-> "char", cp |-> cp, n |-> n]
UEnd == [k |-> "end", cp |-> 0, n |-> 0]
UInvalid(n) == [k |-> "invalid", cp |-> 0, n |-> n]

\* One step of the decoder at s[i]: a decoded character and its length, an
\* invalid sequence and the number of bytes it spans, or the end of the data
\* inside a sequence that is well formed so far.
Utf8Step(s, i) ==
    LET ch == s[i]
        rem == Len(s) - i + 1
        c2 == s[i + 1]
        c3 == s[i + 2]
        c4 == s[i + 3]
    IN  IF ch < 128 THEN UChar(ch, 1)
        ELSE IF ch < 194 THEN UInvalid(1)
        ELSE IF ch < 224 THEN
            IF rem < 2 THEN UEnd
            ELSE IF ~IsContinuation(c2) THEN UInvalid(1)
            ELSE UChar((ch - 192) * 64 + (c2 - 128), 2)
        ELSE IF ch < 240 THEN
            IF rem < 2 THEN UEnd
            ELSE IF ~IsContinuation(c2)
                    \/ (IF c2 < 160 THEN ch = 224 ELSE ch = 237) THEN UInvalid(1)
            ELSE IF rem < 3 THEN UEnd
            ELSE IF ~IsContinuation(c3) THEN UInvalid(2)
            ELSE UChar((ch - 224) * 4096 + (c2 - 128) * 64 + (c3 - 128), 3)
        ELSE IF ch < 245 THEN
            IF rem < 2 THEN UEnd
            ELSE IF ~IsContinuation(c2)
                    \/ (IF c2 < 144 THEN ch = 240 ELSE ch = 244) THEN UInvalid(1)
            ELSE IF rem < 3 THEN UEnd
            ELSE IF ~IsContinuation(c3) THEN UInvalid(2)
            ELSE IF rem < 4 THEN UEnd
            ELSE IF ~IsContinuation(c4) THEN UInvalid(3)
            ELSE UChar((ch - 240) * 262144 + (c2 - 128) * 4096
                       + (c3 - 128) * 64 + (c4 - 128), 4)
        ELSE UInvalid(1)

\* A surrogate cut short at the end of the data (ED, then A0..BF) is kept
\* back by a decoder that may be fed more bytes.
TruncatedSurrogate(s, i) ==
    /\ s[i] = 237
    /\ Len(s) - i + 1 = 2
    /\ s[i + 1] >= 160
    /\ s[i + 1] <= 191

RECURSIVE Utf8DecodeFrom(_, _, _, _, _)
Utf8DecodeFrom(s, i, final, text, errors) ==
    IF i > Len(s) THEN [text |-> text, consumed |-> Len(s), errors |-> errors]
    ELSE LET st == Utf8Step(s, i) IN
        CASE st.k = "char" ->
                Utf8DecodeFrom(s, i + st.n, final, Append(text, st.cp), errors)
          [] st.k = "end" ->
                IF final
                THEN [text |-> Append(text, 65533), consumed |-> Len(s),
                      errors |-> errors + 1]
                ELSE [text |-> text, consumed |-> i - 1, errors |-> errors]
          [] st.k = "invalid" ->
                IF ~final /\ st.n = 1 /\ TruncatedSurrogate(s, i)
                THEN [text |-> text, consumed |-> i - 1, errors |-> errors]
                ELSE Utf8DecodeFrom(s, i + st.n, final, Append(text, 65533),
                                    errors + 1)

\* codecs.utf_8_decode(data, 'replace', final): the text, the number of bytes
\* consumed, and the number of replacements made.
Utf8Decode(s, final) == Utf8DecodeFrom(s, 1, final, <<>>, 0)

\* A decoder that starts every call afresh (a reset, or a decoder made per
\* call): what it held back is dropped.
DecoderDecodeFresh(buf, input) ==
    LET r == Utf8Decode(input, FALSE)
    IN  [text |-> r.text, buffer |-> SubSeq(input, r.consumed + 1, Len(input))]

\* utf8_decoder.decode(input) on a decoder whose buffer is buf: the text
\* returned and the buffer left behind.
DecoderDecode(buf, input) ==
    LET data == buf \o input
        r == Utf8Decode(data, FALSE)
    IN  [text |-> r.text, buffer |-> SubSeq(data, r.consumed + 1, Len(data))]

\* str.encode('utf-8') of one code point; a lone surrogate cannot be encoded.
Utf8EncodeChar(cp) ==
    IF cp < 128 THEN <<cp>>
    ELSE IF cp < 2048 THEN <<192 + (cp \div 64), 128 + (cp % 64)>>
    ELSE IF cp < 65536 THEN
        <<224 + (cp \div 4096), 128 + ((cp \div 64) % 64), 128 + (cp % 64)>>
    ELSE <<240 + (cp \div 262144), 128 + ((cp \div 4096) % 64),
           128 + ((cp \div 64) % 64), 128 + (cp % 64)>>

IsSurrogate(cp) == cp >= 55296 /\ cp <= 57343

RECURSIVE Utf8EncodeFrom(_, _, _)
Utf8EncodeFrom(s, i, acc) ==
    IF i > Len(s) THEN Ok(PyBytes(acc))
    ELSE IF IsSurrogate(s[i]) THEN Raise("UnicodeEncodeError")
    ELSE Utf8EncodeFrom(s, i + 1, acc \o Utf8EncodeChar(s[i]))

Utf8Encode(s) == Utf8EncodeFrom(s, 1, <<>>)

\* ------------------------------------------------------------ json.dumps
\* Names of the fields and the JSON literals, as code points.
\* "version", "width", "height", "theme"
KeyVersion == <<118, 101, 114, 115, 105, 111, 110>>
KeyWidth == <<119, 105, 100, 116, 104>>
KeyHeight == <<104, 101, 105, 103, 104, 116>>
KeyTheme == <<116, 104, 101, 109, 101>>
\* "fg", "bg", "palette"
KeyFg == <<102, 103>>
KeyBg == <<98, 103>>
KeyPalette == <<112, 97, 108, 101, 116, 116, 101>>
\* true, false, null
LitTrue == <<116, 114, 117, 101>>
LitFalse == <<102, 97, 108, 115, 101>>
LitNull == <<110, 117, 108, 108>>

RECURSIVE Digits(_)
Digits(n) == IF n < 10 THEN <<48 + n>> ELSE Digits(n \div 10) \o <<48 + (n % 10)>>

\* int.__repr__
IntRepr(n) == IF n < 0 THEN <<45>> \o Digits(0 - n) ELSE Digits(n)

\* float.__repr__ of a float that is a whole number of tenths (below 1e16):
\* the integer part, a point, one digit.
FloatRepr(tenths) ==
    LET a == IF tenths < 0 THEN 0 - tenths ELSE tenths
    IN  (IF tenths < 0 THEN <<45>> ELSE <<>>)
        \o Digits(a \div 10) \o <<46, 48 + (a % 10)>>

HexDigit(d) == IF d < 10 THEN 48 + d ELSE 87 + d

\* json.encoder.encode_basestring (ensure_ascii=False): only the quote, the
\* backslash and the control characters are escaped.
EscapeChar(c) ==
    CASE c = 34 -> <<92, 34>>
      [] c = 92 -> <<92, 92>>
      [] c = 10 -> <<92, 110>>
      [] c = 13 -> <<92, 114>>
      [] c = 9 -> <<92, 116>>
      [] c = 8 -> <<92, 98>>
      [] c = 12 -> <<92, 102>>
      [] OTHER -> IF c < 32
                  THEN <<92, 117, 48, 48, HexDigit(c \div 16), HexDigit(c % 16)>>
                  ELSE <<c>>

RECURSIVE EscapeFrom(_, _)
EscapeFrom(s, i) == IF i > Len(s) THEN <<>> ELSE EscapeChar(s[i]) \o EscapeFrom(s, i + 1)

StrRepr(s) == <<34>> \o EscapeFrom(s, 1) \o <<34>>

\* json.dumps(obj, ensure_ascii=False) with the default separators ", " and
\* ": ". A dict's keys are str; bytes are not serializable.
RECURSIVE Dumps(_)
RECURSIVE DumpsItems(_, _)
RECURSIVE DumpsPairs(_, _)
DumpsItems(items, i) ==
    IF i > Len(items) THEN <<>>
    ELSE (IF i > 1 THEN <<44, 32>> ELSE <<>>)
         \o Dumps(items[i]) \o DumpsItems(items, i + 1)
DumpsPairs(pairs, i) ==
    IF i > Len(pairs) THEN <<>>
    ELSE (IF i > 1 THEN <<44, 32>> ELSE <<>>)
         \o StrRepr(pairs[i].key) \o <<58, 32>> \o Dumps(pairs[i].val)
         \o DumpsPairs(pairs, i + 1)
Dumps(v) ==
    CASE v.t = "dict" -> <<123>> \o DumpsPairs(v.pairs, 1) \o <<125>>
      [] v.t = "list" -> <<91>> \o DumpsItems(v.items, 1) \o <<93>>
      [] v.t = "str" -> StrRepr(v.s)
      [] v.t = "int" -> IntRepr(v.n)
      [] v.t = "float" -> FloatRepr(v.tenths)
      [] v.t = "bool" -> IF v.bv THEN LitTrue ELSE LitFalse
      [] v.t = "NoneType" -> LitNull

\* ------------------------------------------------------------ json.loads
\* The JSON grammar, short of exponents, of fractions longer than one digit,
\* of NaN and Infinity and of \u escapes of surrogate pairs, none of which
\* occurs in a line the model reads.
ParseFail == [ok |-> FALSE, v |-> None, i |-> 0]
Parsed(v, i) == [ok |-> TRUE, v |-> v, i |-> i]

IsWhitespace(c) == c \in {32, 9, 10, 13}
IsDigit(c) == c >= 48 /\ c <= 57
IsHex(c) == IsDigit(c) \/ (c >= 97 /\ c <= 102) \/ (c >= 65 /\ c <= 70)
HexValue(c) == IF IsDigit(c) THEN c - 48 ELSE IF c >= 97 THEN c - 87 ELSE c - 55

RECURSIVE SkipWhitespace(_, _)
SkipWhitespace(s, i) ==
    IF i <= Len(s) /\ IsWhitespace(s[i]) THEN SkipWhitespace(s, i + 1) ELSE i

\* s[i .. ] starts with the literal lit
StartsWith(s, i, lit) ==
    /\ i + Len(lit) - 1 <= Len(s)
    /\ \A j \in 1..Len(lit) : s[i + j - 1] = lit[j]

\* The character a backslash escape stands for (0: none).
Unescape(c) ==
    CASE c = 34 -> 34
      [] c = 92 -> 92
      [] c = 47 -> 47
      [] c = 98 -> 8
      [] c = 102 -> 12
      [] c = 110 -> 10
      [] c = 114 -> 13
      [] c = 116 -> 9
      [] OTHER -> 0

\* json.decoder.scanstring (strict): from the character after the opening
\* quote to the closing quote.
RECURSIVE ScanString(_, _, _)
ScanString(s, i, acc) ==
    IF i > Len(s) THEN ParseFail
    ELSE IF s[i] = 34 THEN Parsed(PyStr(acc), i + 1)
    ELSE IF s[i] = 92 THEN
        IF i + 1 > Len(s) THEN ParseFail
        ELSE IF s[i + 1] = 117 THEN
            IF i + 5 <= Len(s) /\ \A j \in 2..5 : IsHex(s[i + j])
            THEN ScanString(s, i + 6,
                    Append(acc, HexValue(s[i + 2]) * 4096 + HexValue(s[i + 3]) * 256
                                + HexValue(s[i + 4]) * 16 + HexValue(s[i + 5])))
            ELSE ParseFail
        ELSE IF Unescape(s[i + 1]) # 0
        THEN ScanString(s, i + 2, Append(acc, Unescape(s[i + 1])))
        ELSE ParseFail
    ELSE IF s[i] < 32 THEN ParseFail
    ELSE ScanString(s, i + 1, Append(acc, s[i]))

RECURSIVE ScanDigits(_, _, _)
ScanDigits(s, i, n) ==
    IF i <= Len(s) /\ IsDigit(s[i]) THEN ScanDigits(s, i + 1, n * 10 + (s[i] - 48))
    ELSE [n |-> n, i |-> i]

\* json.scanner NUMBER_RE: -?(0|[1-9]\d*)(\.\d+)?  An integer literal is an
\* int, a literal with a fraction is a float.
ScanNumber(s, i) ==
    LET neg == s[i] = 45
        j == IF neg THEN i + 1 ELSE i
        whole == IF s[j] = 48 THEN [n |-> 0, i |-> j + 1] ELSE ScanDigits(s, j, 0)
        sign == IF neg THEN 0 - 1 ELSE 1
    IN  IF j > Len(s) \/ ~IsDigit(s[j]) THEN ParseFail
        ELSE IF whole.i + 1 <= Len(s) /\ s[whole.i] = 46 /\ IsDigit(s[whole.i + 1])
        THEN IF whole.i + 2 <= Len(s) /\ IsDigit(s[whole.i + 2]) THEN ParseFail
             ELSE Parsed(PyFloat(sign * (whole.n * 10 + (s[whole.i + 1] - 48))),
                         whole.i + 2)
        ELSE Parsed(PyInt(sign * whole.n), whole.i)

\* dict[key] = val: a repeated key keeps its place and takes the later value.
RECURSIVE DictSet(_, _, _, _)
DictSet(pairs, i, key, val) ==
    IF i > Len(pairs) THEN Append(pairs, [key |-> key, val |-> val])
    ELSE IF pairs[i].key = key THEN [pairs EXCEPT ![i] = [key |-> key, val |-> val]]
    ELSE DictSet(pairs, i + 1, key, val)

RECURSIVE ParseValue(_, _)
RECURSIVE ParseElements(_, _, _)
RECURSIVE ParseMembers(_, _, _)
\* json.decoder.JSONArray after the opening bracket: i is at an element.
ParseElements(s, i, items) ==
    LET e == ParseValue(s, i)
        j == SkipWhitespace(s, e.i)
    IN  IF ~e.ok \/ j > Len(s) THEN ParseFail
        ELSE IF s[j] = 93 THEN Parsed(PyList(Append(items, e.v)), j + 1)
        ELSE IF s[j] = 44
        THEN ParseElements(s, SkipWhitespace(s, j + 1), Append(items, e.v))
        ELSE ParseFail
\* json.decoder.JSONObject after the opening brace: i is at a key's quote.
ParseMembers(s, i, pairs) ==
    IF i > Len(s) \/ s[i] # 34 THEN ParseFail
    ELSE LET key == ScanString(s, i + 1, <<>>)
             c == SkipWhitespace(s, key.i)
             e == ParseValue(s, SkipWhitespace(s, c + 1))
             j == SkipWhitespace(s, e.i)
             more == DictSet(pairs, 1, key.v.s, e.v)
         IN  IF ~key.ok \/ c > Len(s) \/ s[c] # 58 THEN ParseFail
             ELSE IF ~e.ok \/ j > Len(s) THEN ParseFail
             ELSE IF s[j] = 125 THEN Parsed(PyDict(more), j + 1)
             ELSE IF s[j] = 44 THEN ParseMembers(s, SkipWhitespace(s, j + 1), more)
             ELSE ParseFail
\* json.scanner.py_make_scanner._scan_once
ParseValue(s, i) ==
    IF i > Len(s) THEN ParseFail
    ELSE IF s[i] = 34 THEN ScanString(s, i + 1, <<>>)
    ELSE IF s[i] = 123 THEN
        LET j == SkipWhitespace(s, i + 1)
        IN  IF j <= Len(s) /\ s[j] = 125 THEN Parsed(PyDict(<<>>), j + 1)
            ELSE ParseMembers(s, j, <<>>)
    ELSE IF s[i] = 91 THEN
        LET j == SkipWhitespace(s, i + 1)
        IN  IF j <= Len(s) /\ s[j] = 93 THEN Parsed(PyList(<<>>), j + 1)
            ELSE ParseElements(s, j, <<>>)
    ELSE IF StartsWith(s, i, LitNull) THEN Parsed(None, i + 4)
    ELSE IF StartsWith(s, i, LitTrue) THEN Parsed(PyBool(TRUE), i + 4)
    ELSE IF StartsWith(s, i, LitFalse) THEN Parsed(PyBool(FALSE), i + 5)
    ELSE IF s[i] = 45 \/ IsDigit(s[i]) THEN ScanNumber(s, i)
    ELSE ParseFail

\* json.loads(line): one value, whitespace around it, nothing after it.
Loads(line) ==
    LET r == ParseValue(line, SkipWhitespace(line, 1))
    IN  IF r.ok /\ SkipWhitespace(line, r.i) > Len(line) THEN Ok(r.v)
        ELSE Raise("JSONDecodeError")

\* ---------------------------------------------------------------- records
\* AsciiCastTheme(fg, bg, palette): a plain namedtuple, nothing is checked.
AsciiCastTheme(fg, bg, palette) ==
    [t |-> "AsciiCastTheme", fg |-> fg, bg |-> bg, palette |-> palette]

\* Types that let width and height be None, as theme may be.
HeaderTypesNullable ==
    [version |-> {"int"}, width |-> {"int", "NoneType"},
     height |-> {"int", "NoneType"}, theme |-> {"NoneType", "AsciiCastTheme"}]

\* AsciiCastHeader.types
HeaderTypes ==
    [version |-> {"int"}, width |-> {"int"}, height |-> {"int"},
     theme |-> {"NoneType", "AsciiCastTheme"}]

\* A constructor that tests the version before the types (in Python a value
\* of another type differs from 2, but for the float 2.0).
HeaderNewValueFirst(version, width, height, theme) ==
    LET self == [t |-> "AsciiCastHeader", version |-> version, width |-> width,
                 height |-> height, theme |-> theme]
    IN  IF ~(version.t = "int" /\ version.n = 2)
           /\ ~(version.t = "float" /\ version.tenths = 20)
        THEN Raise("ValueError")
        ELSE IF \E attr \in DOMAIN HeaderTypes : self[attr].t \notin HeaderTypes[attr]
        THEN Raise("TypeError")
        ELSE Ok(self)

\* AsciiCastHeader.__new__: every field's exact type is checked, then the
\* version.
HeaderNew(version, width, height, theme) ==
    LET self == [t |-> "AsciiCastHeader", version |-> version, width |-> width,
                 height |-> height, theme |-> theme]
    IN  IF \E attr \in DOMAIN HeaderTypes : self[attr].t \notin HeaderTypes[attr]
        THEN Raise("TypeError")
        ELSE IF version.n # 2 THEN Raise("ValueError")
        ELSE Ok(self)

\* An encoder that never writes the theme.
HeaderToJsonNoTheme(h) ==
    Dumps(PyDict(<<[key |-> KeyVersion, val |-> h.version],
                   [key |-> KeyWidth, val |-> h.width],
                   [key |-> KeyHeight, val |-> h.height]>>))

\* An encoder that keeps the theme key of a header without a theme, and so
\* writes it as null.
HeaderToJsonNullTheme(h) ==
    LET theme == IF h.theme.t # "NoneType"
                 THEN PyDict(<<[key |-> KeyFg, val |-> h.theme.fg],
                               [key |-> KeyBg, val |-> h.theme.bg],
                               [key |-> KeyPalette, val |-> h.theme.palette]>>)
                 ELSE None
    IN  Dumps(PyDict(<<[key |-> KeyVersion, val |-> h.version],
                       [key |-> KeyWidth, val |-> h.width],
                       [key |-> KeyHeight, val |-> h.height],
                       [key |-> KeyTheme, val |-> theme]>>))

\* AsciiCastHeader.to_json_line
HeaderToJson(h) ==
    LET attributes == <<[key |-> KeyVersion, val |-> h.version],
                        [key |-> KeyWidth, val |-> h.width],
                        [key |-> KeyHeight, val |-> h.height]>>
        theme == PyDict(<<[key |-> KeyFg, val |-> h.theme.fg],
                          [key |-> KeyBg, val |-> h.theme.bg],
                          [key |-> KeyPalette, val |-> h.theme.palette]>>)
    IN  IF h.theme.t # "NoneType"
        THEN Dumps(PyDict(Append(attributes, [key |-> KeyTheme, val |-> theme])))
        ELSE Dumps(PyDict(attributes))

HasKey(pairs, key) == \E i \in DOMAIN pairs : pairs[i].key = key
Lookup(pairs, key) == pairs[CHOOSE i \in DOMAIN pairs : pairs[i].key = key].val

\* attributes[attr] if attr in attributes else None
FieldOrNone(pairs, key) == IF HasKey(pairs, key) THEN Lookup(pairs, key) ELSE None

\* AsciiCastTheme(**value): value must be a mapping holding exactly the three
\* field names.
ThemeFromKwargs(value) ==
    IF value.t # "dict" THEN Raise("TypeError")
    ELSE IF {value.pairs[i].key : i \in DOMAIN value.pairs} # {KeyFg, KeyBg, KeyPalette}
    THEN Raise("TypeError")
    ELSE Ok(AsciiCastTheme(Lookup(value.pairs, KeyFg), Lookup(value.pairs, KeyBg),
                           Lookup(value.pairs, KeyPalette)))

\* AsciiCastHeader.from_json_line. On a JSON value that is no object, either
\* the test `attr in attributes` raises TypeError (a number, a boolean, null),
\* or it is true and the subscript by a str raises TypeError (a list or a
\* string holding a field's name), or every field is None and construction
\* raises TypeError.
HeaderFromJson(line) ==
    LET loaded == Loads(line)
        attributes == loaded.v.pairs
        theme == FieldOrNone(attributes, KeyTheme)
        built == ThemeFromKwargs(theme)
    IN  IF loaded.k # "ok" THEN loaded
        ELSE IF loaded.v.t # "dict" THEN Raise("TypeError")
        ELSE IF theme.t # "NoneType" /\ built.k # "ok" THEN built
        ELSE HeaderNew(FieldOrNone(attributes, KeyVersion),
                       FieldOrNone(attributes, KeyWidth),
                       FieldOrNone(attributes, KeyHeight),
                       IF theme.t # "NoneType" THEN built.v ELSE None)

\* AsciiCastEvent.types
EventTypes ==
    [time |-> {"int", "float"}, event_type |-> {"str"}, event_data |-> {"bytes"},
     duration |-> {"NoneType", "int", "float"}]

\* AsciiCastEvent.__new__
EventNew(time, event_type, event_data, duration) ==
    LET self == [t |-> "AsciiCastEvent", time |-> time, event_type |-> event_type,
                 event_data |-> event_data, duration |-> duration]
    IN  IF \E attr \in DOMAIN EventTypes : self[attr].t \notin EventTypes[attr]
        THEN Raise("TypeError")
        ELSE Ok(self)

\* AsciiCastEvent.to_json_line on the module's decoder, whose buffer is buf:
\* the line returned and the buffer the decoder is left with.
EventToJson(e, buf) ==
    LET d == DecoderDecode(buf, e.event_data.b)
    IN  [line |-> Dumps(PyList(<<e.time, e.event_type, PyStr(d.text)>>)),
         buffer |-> d.buffer]

\* time, event_type, event_data = attributes: a list gives its items, a dict
\* its keys, a str its characters; there must be three.
Unpack3(v) ==
    LET items == CASE v.t = "list" -> v.items
                   [] v.t = "dict" -> [i \in DOMAIN v.pairs |-> PyStr(v.pairs[i].key)]
                   [] v.t = "str" -> [i \in DOMAIN v.s |-> PyStr(<<v.s[i]>>)]
    IN  IF v.t \notin {"list", "dict", "str"} THEN Raise("TypeError")
        ELSE IF Len(items) # 3 THEN Raise("ValueError")
        ELSE Ok(items)

\* AsciiCastEvent.from_json_line
EventFromJson(line) ==
    LET loaded == Loads(line)
        items == Unpack3(loaded.v)
        data == Utf8Encode(items.v[3].s)
    IN  IF loaded.k # "ok" THEN loaded
        ELSE IF items.k # "ok" THEN items
        ELSE IF items.v[3].t # "str" THEN Raise("AttributeError")
        ELSE IF data.k # "ok" THEN data
        ELSE EventNew(items.v[1], items.v[2], data.v, None)

\* A dispatcher that takes whatever is no object for an event.
RecordFromJsonElseEvent(line) ==
    LET loaded == Loads(line)
    IN  IF loaded.k # "ok" THEN loaded
        ELSE IF loaded.v.t = "dict" THEN HeaderFromJson(line)
        ELSE EventFromJson(line)

\* AsciiCastRecord.from_json_line
RecordFromJson(line) ==
    LET loaded == Loads(line)
    IN  IF loaded.k # "ok" THEN loaded
        ELSE IF loaded.v.t = "dict" THEN HeaderFromJson(line)
        ELSE IF loaded.v.t = "list" THEN EventFromJson(line)
        ELSE Raise("NotImplementedError")

\* ----------------------------------------------------------------- inputs
\* The bytes event data is made of: an ASCII character that JSON escapes
\* (the quote), the lead bytes of a 2-, a 3- and a 4-byte sequence (C3, E2,
\* F0), a continuation byte (A9), the lead byte of the surrogates (ED), and a
\* byte no sequence holds (FF).
Alphabet == {34, 195, 226, 240, 169, 237, 255}
\* The bytes of the events the whole interface is run on.
ApiAlphabet == {34, 195, 169, 255}

RECURSIVE ByteStrings(_, _)
ByteStrings(alphabet, n) ==
    IF n = 0 THEN {<<>>}
    ELSE LET shorter == ByteStrings(alphabet, n - 1)
         IN  shorter \cup {Append(s, c) : s \in {x \in shorter : Len(x) = n - 1},
                                          c \in alphabet}

\* "o", "i", "#000000", "#ffffff", a palette of two colours
StrO == PyStr(<<111>>)
StrI == PyStr(<<105>>)
Theme1 == AsciiCastTheme(PyStr(<<35, 48, 48, 48, 48, 48, 48>>), PyStr(<<35, 102, 102, 102, 102, 102, 102>>),
                         PyStr(<<35, 48, 48, 48, 48, 48, 48, 58, 35, 102, 102, 102, 102, 102, 102>>))
\* A theme whose strings JSON must escape or leave alone: a quote, a
\* backslash and a newline, a non-ASCII letter.
Theme2 == AsciiCastTheme(PyStr(<<34>>), PyStr(<<92, 10>>), PyStr(<<233>>))

\* Arguments handed to AsciiCastHeader(...), well typed or not.
VersionArgs == {PyInt(1), PyInt(2), PyInt(3), PyFloat(20), PyBool(TRUE), None}
WidthArgs == {PyInt(80), PyFloat(800), None}
HeightArgs == {PyInt(24), StrO}
ThemeArgs == {None, Theme1, PyDict(<<>>)}

\* Arguments handed to AsciiCastEvent(...), well typed or not.
TimeArgs == {PyInt(0), PyBool(TRUE)}
EventTypeArgs == {StrO, PyInt(1)}
EventDataArgs == {PyBytes(<<195>>), StrO}
DurationArgs == {None, PyFloat(5), StrO}

\* The records the program can hold: those construction returns.
Constructed(outcomes) == {r.v : r \in {x \in outcomes : x.k = "ok"}}
Headers ==
    Constructed({HeaderNew(v, w, h, th) :
                   v \in VersionArgs, w \in {PyInt(80), PyInt(0 - 1)},
                   h \in {PyInt(24), PyInt(1000)}, th \in {None, Theme1, Theme2}})
Events ==
    Constructed({EventNew(td[1], ty, PyBytes(b), td[2]) :
                   td \in {<<PyInt(0), None>>, <<PyFloat(15), PyFloat(5)>>},
                   ty \in EventTypeArgs,
                   b \in ByteStrings(ApiAlphabet, MaxDataLen)})
\* The events a writer streams: one time, no duration, every chunk of bytes.
StreamEvents ==
    Constructed({EventNew(PyInt(0), StrO, PyBytes(b), None) :
                   b \in ByteStrings(Alphabet, MaxDataLen)})

\* Lines handed to the decoders.
SampleLines == {
    \* {"version":2,"width":80,"height":24}
    <<123, 34, 118, 101, 114, 115, 105, 111, 110, 34, 58, 50, 44, 34, 119, 105, 100, 116, 104, 34, 58, 56, 48, 44, 34, 104, 101, 105, 103, 104, 116, 34, 58, 50, 52, 125>>,
    \* [1.5,"o","hi"]
    <<91, 49, 46, 53, 44, 34, 111, 34, 44, 34, 104, 105, 34, 93>>,
    \* "oops"
    <<34, 111, 111, 112, 115, 34>>,
    \* null
    <<110, 117, 108, 108>>,
    \* true
    <<116, 114, 117, 101>>,
    \* 7
    <<55>>,
    \* 0.5
    <<48, 46, 53>>,
    \* [1,
    <<91, 49, 44>>,
    \* {"width":80,"height":24}
    <<123, 34, 119, 105, 100, 116, 104, 34, 58, 56, 48, 44, 34, 104, 101, 105, 103, 104, 116, 34, 58, 50, 52, 125>>,
    \* {"version":2,"height":24}
    <<123, 34, 118, 101, 114, 115, 105, 111, 110, 34, 58, 50, 44, 34, 104, 101, 105, 103, 104, 116, 34, 58, 50, 52, 125>>,
    \* {"version":2,"width":80}
    <<123, 34, 118, 101, 114, 115, 105, 111, 110, 34, 58, 50, 44, 34, 119, 105, 100, 116, 104, 34, 58, 56, 48, 125>>,
    \* {}
    <<123, 125>>,
    \* {"version":2,"width":80,"height":24,"title":"x"}
    <<123, 34, 118, 101, 114, 115, 105, 111, 110, 34, 58, 50, 44, 34, 119, 105, 100, 116, 104, 34, 58, 56, 48, 44, 34, 104, 101, 105, 103, 104, 116, 34, 58, 50, 52, 44, 34, 116, 105, 116, 108, 101, 34, 58, 34, 120, 34, 125>>,
    \* {"version":2,"title":"x"}
    <<123, 34, 118, 101, 114, 115, 105, 111, 110, 34, 58, 50, 44, 34, 116, 105, 116, 108, 101, 34, 58, 34, 120, 34, 125>>,
    \* {"version":2,"width":80,"theme":{"fg":"a","bg":"b","palette":"c"}}
    <<123, 34, 118, 101, 114, 115, 105, 111, 110, 34, 58, 50, 44, 34, 119, 105, 100, 116, 104, 34, 58, 56, 48, 44, 34, 116, 104, 101, 109, 101, 34, 58, 123, 34, 102, 103, 34, 58, 34, 97, 34, 44, 34, 98, 103, 34, 58, 34, 98, 34, 44, 34, 112, 97, 108, 101, 116, 116, 101, 34, 58, 34, 99, 34, 125, 125>>,
    \* {"width":80,"height":24,"theme":"x"}
    <<123, 34, 119, 105, 100, 116, 104, 34, 58, 56, 48, 44, 34, 104, 101, 105, 103, 104, 116, 34, 58, 50, 52, 44, 34, 116, 104, 101, 109, 101, 34, 58, 34, 120, 34, 125>>,
    \* {"version":1,"width":80,"height":24}
    <<123, 34, 118, 101, 114, 115, 105, 111, 110, 34, 58, 49, 44, 34, 119, 105, 100, 116, 104, 34, 58, 56, 48, 44, 34, 104, 101, 105, 103, 104, 116, 34, 58, 50, 52, 125>>,
    \* {"version":2,"width":80.0,"height":24}
    <<123, 34, 118, 101, 114, 115, 105, 111, 110, 34, 58, 50, 44, 34, 119, 105, 100, 116, 104, 34, 58, 56, 48, 46, 48, 44, 34, 104, 101, 105, 103, 104, 116, 34, 58, 50, 52, 125>>,
    \* {"version":2,"width":80,"height":24,"theme":{"fg":"a"}}
    <<123, 34, 118, 101, 114, 115, 105, 111, 110, 34, 58, 50, 44, 34, 119, 105, 100, 116, 104, 34, 58, 56, 48, 44, 34, 104, 101, 105, 103, 104, 116, 34, 58, 50, 52, 44, 34, 116, 104, 101, 109, 101, 34, 58, 123, 34, 102, 103, 34, 58, 34, 97, 34, 125, 125>>,
    \* {"version":2,"width":80,"height":24,"theme":null}
    <<123, 34, 118, 101, 114, 115, 105, 111, 110, 34, 58, 50, 44, 34, 119, 105, 100, 116, 104, 34, 58, 56, 48, 44, 34, 104, 101, 105, 103, 104, 116, 34, 58, 50, 52, 44, 34, 116, 104, 101, 109, 101, 34, 58, 110, 117, 108, 108, 125>>,
    \* {"version":2,"width":80,"height":24,"theme":{"bg":"b","fg":"a","palette":"c"}}
    <<123, 34, 118, 101, 114, 115, 105, 111, 110, 34, 58, 50, 44, 34, 119, 105, 100, 116, 104, 34, 58, 56, 48, 44, 34, 104, 101, 105, 103, 104, 116, 34, 58, 50, 52, 44, 34, 116, 104, 101, 109, 101, 34, 58, 123, 34, 98, 103, 34, 58, 34, 98, 34, 44, 34, 102, 103, 34, 58, 34, 97, 34, 44, 34, 112, 97, 108, 101, 116, 116, 101, 34, 58, 34, 99, 34, 125, 125>>,
    \* [1,2]
    <<91, 49, 44, 50, 93>>,
    \* []
    <<91, 93>>,
    \* [true,"o","x"]
    <<91, 116, 114, 117, 101, 44, 34, 111, 34, 44, 34, 120, 34, 93>>,
    \* [1,"o",5]
    <<91, 49, 44, 34, 111, 34, 44, 53, 93>>,
    \* [1,"o","\ud800"]
    <<91, 49, 44, 34, 111, 34, 44, 34, 92, 117, 100, 56, 48, 48, 34, 93>>,
    \* [0,"i","é\n"]
    <<91, 48, 44, 34, 105, 34, 44, 34, 233, 92, 110, 34, 93>>,
    \* {"a":1,"b":2,"c":3}
    <<123, 34, 97, 34, 58, 49, 44, 34, 98, 34, 58, 50, 44, 34, 99, 34, 58, 51, 125>>,
    \* "abc"
    <<34, 97, 98, 99, 34>>,
    \* ["version"]
    <<91, 34, 118, 101, 114, 115, 105, 111, 110, 34, 93>>}

\* ------------------------------------------------------------------ state
\* pending: the bytes the module's utf8_decoder holds back (its buffer).
\* op, arg, out: the last call made, its argument(s) and its outcome.
\* src: when the last call decoded the line the call before it encoded, the
\*      record that was encoded; None otherwise.
\* stream, emitted: kept by the reader of a streamed recording: all the
\*      event_data bytes encoded so far, and all the data strings of the
\*      lines written so far.
Init ==
    /\ pending = <<>>
    /\ op = "import"
    /\ arg = None
    /\ out = Ok(None)
    /\ src = None
    /\ stream = <<>>
    /\ emitted = <<>>

CallHeaderNew(version, width, height, theme) ==
    /\ op' = "AsciiCastHeader"
    /\ arg' = <<version, width, height, theme>>
    /\ out' = HeaderNew(version, width, height, theme)
    /\ src' = None
    /\ UNCHANGED pending

CallEventNew(time, event_type, event_data, duration) ==
    /\ op' = "AsciiCastEvent"
    /\ arg' = <<time, event_type, event_data, duration>>
    /\ out' = EventNew(time, event_type, event_data, duration)
    /\ src' = None
    /\ UNCHANGED pending

CallHeaderToJsonLine(h) ==
    /\ op' = "AsciiCastHeader.to_json_line"
    /\ arg' = h
    /\ out' = Ok(PyStr(HeaderToJson(h)))
    /\ src' = None
    /\ UNCHANGED pending

CallEventToJsonLine(e) ==
    LET r == EventToJson(e, pending)
    IN  /\ op' = "AsciiCastEvent.to_json_line"
        /\ arg' = e
        /\ out' = Ok(PyStr(r.line))
        /\ src' = None
        /\ pending' = r.buffer

\* A header decoder that resets the module's decoder.
CallHeaderFromJsonLineReset(line, origin) ==
    /\ op' = "AsciiCastHeader.from_json_line"
    /\ arg' = line
    /\ out' = HeaderFromJson(line)
    /\ src' = origin
    /\ pending' = <<>>

CallHeaderFromJsonLine(line, origin) ==
    /\ op' = "AsciiCastHeader.from_json_line"
    /\ arg' = line
    /\ out' = HeaderFromJson(line)
    /\ src' = origin
    /\ UNCHANGED pending

CallEventFromJsonLine(line, origin) ==
    /\ op' = "AsciiCastEvent.from_json_line"
    /\ arg' = line
    /\ out' = EventFromJson(line)
    /\ src' = origin
    /\ UNCHANGED pending

CallRecordFromJsonLine(line, origin) ==
    /\ op' = "AsciiCastRecord.from_json_line"
    /\ arg' = line
    /\ out' = RecordFromJson(line)
    /\ src' = origin
    /\ UNCHANGED pending

\* The last call wrote a line.
Wrote == op \in {"AsciiCastHeader.to_json_line", "AsciiCastEvent.to_json_line"}

NewHeader ==
    /\ \E v \in VersionArgs, w \in WidthArgs, h \in HeightArgs, th \in ThemeArgs :
          CallHeaderNew(v, w, h, th)
    /\ UNCHANGED <<stream, emitted>>

NewEvent ==
    /\ \E tm \in TimeArgs, ty \in EventTypeArgs, d \in EventDataArgs,
          du \in DurationArgs : CallEventNew(tm, ty, d, du)
    /\ UNCHANGED <<stream, emitted>>

EncodeHeader ==
    /\ \E h \in Headers : CallHeaderToJsonLine(h)
    /\ UNCHANGED <<stream, emitted>>

EncodeEvent ==
    /\ \E e \in Events : CallEventToJsonLine(e)
    /\ UNCHANGED <<stream, emitted>>

\* A decoder is handed a line from outside ...
DecodeHeader ==
    /\ \E line \in SampleLines : CallHeaderFromJsonLine(line, None)
    /\ UNCHANGED <<stream, emitted>>

DecodeEvent ==
    /\ \E line \in SampleLines : CallEventFromJsonLine(line, None)
    /\ UNCHANGED <<stream, emitted>>

DecodeRecord ==
    /\ \E line \in SampleLines : CallRecordFromJsonLine(line, None)
    /\ UNCHANGED <<stream, emitted>>

\* ... or the line the last call wrote.
RoundTripHeader ==
    /\ Wrote
    /\ CallHeaderFromJsonLine(out.v.s, arg)
    /\ UNCHANGED <<stream, emitted>>

RoundTripEvent ==
    /\ Wrote
    /\ CallEventFromJsonLine(out.v.s, arg)
    /\ UNCHANGED <<stream, emitted>>

RoundTripRecord ==
    /\ Wrote
    /\ CallRecordFromJsonLine(out.v.s, arg)
    /\ UNCHANGED <<stream, emitted>>

Next ==
    \/ NewHeader
    \/ NewEvent
    \/ EncodeHeader
    \/ EncodeEvent
    \/ DecodeHeader
    \/ DecodeEvent
    \/ DecodeRecord
    \/ RoundTripHeader
    \/ RoundTripEvent
    \/ RoundTripRecord

Spec == Init /\ [][Next]_vars

\* A writer streams events through to_json_line, in order; the reader of the
\* lines keeps what was sent and what came out.
StreamEvent(e) ==
    /\ Len(stream) + Len(e.event_data.b) <= MaxStream
    /\ CallEventToJsonLine(e)
    /\ stream' = stream \o e.event_data.b
    /\ emitted' = emitted \o Loads(out'.v.s).v.items[3].s

NextStream == \E e \in StreamEvents : StreamEvent(e)

SpecStream == Init /\ [][NextStream]_vars

\* ----------------------------------------------------------------- claims
\* The bytes are well-formed UTF-8: a strict decoder accepts them.
ValidUtf8(b) == Utf8Decode(b, TRUE).errors = 0

IsNone(v) == v.t = "NoneType"

\* C1: event round trip. Whenever AsciiCastEvent.from_json_line has just
\* decoded the line that to_json_line wrote for an event e whose event_data
\* is valid UTF-8, whatever was encoded or decoded before, it returns an
\* event with e's time, event_type and event_data and with duration None.
C1_EventRoundTrip ==
    (/\ op = "AsciiCastEvent.from_json_line"
     /\ src.t = "AsciiCastEvent"
     /\ ValidUtf8(src.event_data.b))
    => /\ out.k = "ok"
       /\ out.v.time = src.time
       /\ out.v.event_type = src.event_type
       /\ out.v.event_data = src.event_data
       /\ IsNone(out.v.duration)

\* C2: header round trip. Whenever AsciiCastHeader.from_json_line has just
\* decoded the line that to_json_line wrote for a header h, it returns a
\* header equal to h: with h's theme when h has one, with theme None when h
\* has none.
C2_HeaderRoundTrip ==
    (op = "AsciiCastHeader.from_json_line" /\ src.t = "AsciiCastHeader")
    => /\ out.k = "ok"
       /\ out.v = src
       /\ IsNone(out.v.theme) <=> IsNone(src.theme)

\* C2's case: a header without a theme went through encode and decode.
C2_Witness ==
    /\ op = "AsciiCastHeader.from_json_line"
    /\ src.t = "AsciiCastHeader"
    /\ IsNone(src.theme)
    /\ out.k = "ok"
    /\ IsNone(out.v.theme)

\* C3: encoding is stable. When to_json_line is called twice in a row on the
\* same event, the second call returns without raising and returns the line
\* the first call returned.
C3_EncodeStable ==
    [][(/\ op = "AsciiCastEvent.to_json_line"
        /\ op' = "AsciiCastEvent.to_json_line"
        /\ arg' = arg)
       => (out'.k = "ok" /\ out' = out)]_vars

\* C4: encoding is a pure function of the event. The line to_json_line
\* returns for an event e is the same after every history of earlier calls;
\* after the empty history it is the line a decoder holding no bytes gives,
\* so it is that line always.
C4_EncodePure ==
    op = "AsciiCastEvent.to_json_line"
    => out = Ok(PyStr(EventToJson(arg, <<>>).line))

\* C5: header construction succeeds exactly when version, width and height
\* are int, theme is None or an AsciiCastTheme, and version is 2; it raises
\* TypeError when a field's type is not allowed (whatever the version's
\* value), and ValueError when the types are allowed and version is not 2.
C5_HeaderConstruction ==
    op = "AsciiCastHeader"
    => LET typed == /\ arg[1].t = "int"
                    /\ arg[2].t = "int"
                    /\ arg[3].t = "int"
                    /\ arg[4].t \in {"NoneType", "AsciiCastTheme"}
       IN  /\ (out.k = "ok") <=> (typed /\ arg[1].n = 2)
           /\ ~typed => out.k = "TypeError"
           /\ (typed /\ arg[1].n # 2) => out.k = "ValueError"
           /\ out.k = "ok" => /\ out.v.version = arg[1]
                              /\ out.v.width = arg[2]
                              /\ out.v.height = arg[3]
                              /\ out.v.theme = arg[4]

\* C5's case: a version of the wrong type, and not 2 either, is refused with
\* TypeError.
C5_Witness ==
    /\ op = "AsciiCastHeader"
    /\ IsNone(arg[1])
    /\ arg[2].t = "int"
    /\ out.k = "TypeError"

\* The first character of a line after its leading whitespace (0: none). In
\* valid JSON it tells the top-level shape: a brace opens an object, a
\* bracket an array.
FirstChar(line) ==
    LET i == SkipWhitespace(line, 1) IN IF i > Len(line) THEN 0 ELSE line[i]

\* C6: the dispatcher. On a line that is valid JSON,
\* AsciiCastRecord.from_json_line returns what AsciiCastHeader.from_json_line
\* returns or raises when the line is an object, what
\* AsciiCastEvent.from_json_line returns or raises when it is an array, and
\* raises NotImplementedError on any other shape.
C6_Dispatch ==
    (op = "AsciiCastRecord.from_json_line" /\ Loads(arg).k = "ok")
    => /\ FirstChar(arg) = 123 => out = HeaderFromJson(arg)
       /\ FirstChar(arg) = 91 => out = EventFromJson(arg)
       /\ FirstChar(arg) \notin {123, 91} => out.k = "NotImplementedError"
       /\ out.k = "ok" =>
            out.v.t = (IF FirstChar(arg) = 123 THEN "AsciiCastHeader"
                       ELSE "AsciiCastEvent")

\* C6's case: the dispatcher was handed the string "oops" and refused it.
C6_Witness ==
    /\ op = "AsciiCastRecord.from_json_line"
    /\ arg = <<34, 111, 111, 112, 115, 34>>
    /\ out.k = "NotImplementedError"

Range(f) == {f[i] : i \in DOMAIN f}

\* The keys of a dict, in order.
Keys(d) == [i \in DOMAIN d.pairs |-> d.pairs[i].key]

\* {"version": 2, "width": 80, "height": 24}
PlainHeaderLine ==
    <<123, 34, 118, 101, 114, 115, 105, 111, 110, 34, 58, 32, 50, 44, 32, 34, 119, 105, 100, 116, 104, 34, 58, 32, 56, 48, 44, 32, 34, 104, 101, 105, 103, 104, 116, 34, 58, 32, 50, 52, 125>>

\* C7: header encode. The line to_json_line returns for a header h is a JSON
\* object whose keys are version, width, height in that order, followed by
\* theme exactly when h.theme is not None, and then theme is an object with
\* the keys fg, bg, palette; a header without a theme has no theme key, and
\* Header(2, 80, 24, None) gives {"version": 2, "width": 80, "height": 24}.
C7_HeaderEncode ==
    op = "AsciiCastHeader.to_json_line"
    => LET v == Loads(out.v.s)
       IN  /\ out.k = "ok"
           /\ v.k = "ok"
           /\ v.v.t = "dict"
           /\ Keys(v.v) = IF IsNone(arg.theme)
                          THEN <<KeyVersion, KeyWidth, KeyHeight>>
                          ELSE <<KeyVersion, KeyWidth, KeyHeight, KeyTheme>>
           /\ ~IsNone(arg.theme) =>
                /\ Lookup(v.v.pairs, KeyTheme).t = "dict"
                /\ Keys(Lookup(v.v.pairs, KeyTheme)) = <<KeyFg, KeyBg, KeyPalette>>
           /\ (arg.version = PyInt(2) /\ arg.width = PyInt(80)
               /\ arg.height = PyInt(24) /\ IsNone(arg.theme))
              => out.v.s = PlainHeaderLine

\* C7's case: Header(2, 80, 24, None) was encoded.
C7_Witness ==
    /\ op = "AsciiCastHeader.to_json_line"
    /\ arg.width = PyInt(80)
    /\ arg.height = PyInt(24)
    /\ IsNone(arg.theme)
    /\ out.v.s = PlainHeaderLine

\* C8: streaming reassembly. After any sequence of events encoded in order,
\* the bytes sent are the bytes decoded so far followed by the bytes the
\* decoder holds back; the data strings written so far, put together, are
\* the replacement-mode decoding of the bytes decoded so far; and the bytes
\* held back are an incomplete sequence, of which nothing can be decoded yet.
C8_StreamReassembly ==
    LET head == SubSeq(stream, 1, Len(stream) - Len(pending))
    IN  /\ Len(pending) <= Len(stream)
        /\ stream = head \o pending
        /\ emitted = Utf8Decode(head, TRUE).text
        /\ Utf8Decode(pending, FALSE).consumed = 0
        /\ Len(pending) <= 3

\* C8's case: the two bytes of U+00E9 came in two events, and the second
\* event's line carries the character.
C8_Witness ==
    /\ op = "AsciiCastEvent.to_json_line"
    /\ stream = <<195, 169>>
    /\ arg.event_data.b = <<169>>
    /\ emitted = <<233>>
    /\ pending = <<>>

\* C9: a header line with a required field missing. When
\* AsciiCastHeader.from_json_line is handed a JSON object without version,
\* width or height it raises TypeError; it never returns a header whose
\* version, width or height is None; and it reads no key but the four
\* fields, so the object cut down to those keys decodes to the same outcome.
C9_MissingField ==
    (/\ op = "AsciiCastHeader.from_json_line"
     /\ Loads(arg).k = "ok"
     /\ Loads(arg).v.t = "dict")
    => LET d == Loads(arg).v
           fields == {KeyVersion, KeyWidth, KeyHeight, KeyTheme}
           cut == PyDict(SelectSeq(d.pairs, LAMBDA p : p.key \in fields))
       IN  /\ (\E f \in {KeyVersion, KeyWidth, KeyHeight} : f \notin Range(Keys(d)))
              => out.k = "TypeError"
           /\ out.k = "ok" => /\ out.v.version.t = "int"
                              /\ out.v.width.t = "int"
                              /\ out.v.height.t = "int"
           /\ out = HeaderFromJson(Dumps(cut))

\* C9's case: an object with a field missing and a key that is no field was
\* decoded, and TypeError came out.
C9_Witness ==
    /\ op = "AsciiCastHeader.from_json_line"
    /\ arg = <<123, 34, 118, 101, 114, 115, 105, 111, 110, 34, 58, 50, 44, 34, 116, 105, 116, 108, 101, 34, 58, 34, 120, 34, 125>>
    /\ out.k = "TypeError"

\* C10: the frame of the shared decoder. Only AsciiCastEvent.to_json_line
\* changes the bytes the decoder holds back: every other call leaves them as
\* they were, nothing resets them (an encode of no bytes leaves them too),
\* and the encoded record is the record that was handed in.
C10_DecoderFrame ==
    [][/\ op' # "AsciiCastEvent.to_json_line" => pending' = pending
       /\ (op' = "AsciiCastEvent.to_json_line" /\ arg'.event_data.b = <<>>)
          => pending' = pending
       /\ op' = "AsciiCastEvent.to_json_line"
          => (arg' \in Events \cup StreamEvents
              /\ Len(pending') <= Len(pending) + Len(arg'.event_data.b))]_vars

\* C10's case: bytes held back by an event encode are still held back after
\* a header was decoded.
C10_Witness ==
    /\ op = "AsciiCastHeader.from_json_line"
    /\ pending = <<195>>

====
